---- MODULE Spec2Model ----
(***************************************************************************)
(* thepiratedb.go: a crawler pipeline.  main() dispatches identifiers over *)
(* the unbuffered channel ci to runnersNum runner goroutines; each runner  *)
(* fetches the page of an identifier (bounded by maxTries), parses it with *)
(* ParseTorrent and sends the record over the unbuffered channel dbChan to *)
(* the single writer goroutine, which inserts it into the store.  A signal *)
(* handler goroutine closes the store and exits the process on interrupt.  *)
(*                                                                         *)
(* Not modelled: the progress log line (i % LOG_INTERVAL), the "Retry"     *)
(* debug log lines, the text of the fetched pages beyond what the runner   *)
(* and ParseTorrent test (doctype prefix, position of the not-found title, *)
(* which field patterns match and decode).                                 *)
(***************************************************************************)
EXTENDS Integers, Sequences, FiniteSets, TLC

\* ---------------------------------------------------------------- bounds
MaxRunners == 2
MaxTriesArg == 2
MaxLatest == 2
MaxStart == 1
\* runs are drawn with runnersNum + maxTries + latest <= MaxLoad
MaxLoad == 5

\* ------------------------------------------------------ program constants
\* body[:300] in runner
PrefixWindow == 300
\* len(notFoundText)
NotFoundLen == 86
\* number of fields ParseTorrent extracts
NumFields == 10
\* len(doctype)
DoctypeLen == 21
\* bytes.MinRead: the capacity ioutil.ReadAll starts its buffer with
MinRead == 512

Fields == 1..NumFields

\* the order in which ParseTorrent extracts the fields
FieldNames ==
  << "title", "category", "size", "seeders", "leechers",
     "uploaded", "uploader", "files_num", "description", "magnet" >>

\* fields decoded with strconv.ParseInt / strconv.Atoi / time.Parse
Decoded == {3, 4, 5, 6, 8}

\* type Torrent: Id and, for each field, what the struct holds:
\* "zero" (untouched since new(Torrent), or the zero value a failed decode
\* stores), "val" (the extracted value), "clamped" (the out-of-range value
\* strconv stores together with its error)
NewTorrent == [Id |-> 0, f |-> [k \in Fields |-> "zero"]]

\* ------------------------------------------------------------- documents
\* A fetched body: whether it starts with the doctype marker, the offset of
\* the not-found title in it (-1: absent), the fields whose pattern matches
\* and, among them, those whose text decodes.
Body(dt, nf, found, good) ==
  [doctype |-> dt, nfAt |-> nf, found |-> found, good |-> good]

GoodDoc == Body(TRUE, -1, Fields, Fields)
NoDoctypeDoc == Body(FALSE, -1, Fields, Fields)
NotFoundDoc == Body(TRUE, 60, {}, {})
NoSeedersDoc == Body(TRUE, -1, Fields \ {4}, Fields \ {4})
BadUploadedDoc == Body(TRUE, -1, Fields, Fields \ {6})
LateMarkerDoc == Body(TRUE, 250, Fields, Fields)

\* A body shorter than the prefix window: n bytes, of which the first
\* DoctypeLen are the doctype marker; too short to hold the ten fields.
ShortBody(n, nf) ==
  [doctype |-> TRUE, nfAt |-> nf, found |-> {}, good |-> {}, len |-> n]

IsShort(body) == "len" \in DOMAIN body

\* len(body), as far as the slice body[:300] is concerned: the bodies that
\* are not short fill the window
BodyLen(body) == IF IsShort(body) THEN body.len ELSE PrefixWindow

\* the buffer holds exactly the bytes read
ReadAllCap_Exact(body) == BodyLen(body)

\* cap(body) for the slice ioutil.ReadAll returns: its buffer is allocated
\* with bytes.MinRead bytes and grows with the bytes read
ReadAllCap(body) ==
  IF BodyLen(body) > MinRead THEN BodyLen(body) ELSE MinRead

\* body[:300] is a valid slice expression when 300 <= cap(body); the
\* bytes between len(body) and 300 are the zero bytes of the buffer, in
\* which no part of notFoundText can match
SliceInRange(body) == PrefixWindow <= ReadAllCap(body)

\* the bodies the fetches of a run are drawn from
Bodies ==
  {GoodDoc, NoDoctypeDoc, NotFoundDoc, NoSeedersDoc, LateMarkerDoc}

\* what client.Get followed by ioutil.ReadAll can produce
Responses ==
  {[kind |-> "connerr", body |-> GoodDoc], [kind |-> "readerr", body |-> GoodDoc]}
    \cup {[kind |-> "body", body |-> b] : b \in Bodies}

\* bytes.HasPrefix(body, doctype)
HasDoctype(body) == body.doctype

\* bytes.Index(body[:100], notFoundText) >= 0
IsNotFound_NarrowWindow(body) ==
  body.nfAt >= 0 /\ body.nfAt + NotFoundLen <= 100
\* bytes.Index(body, notFoundText) >= 0
IsNotFound_Anywhere(body) == body.nfAt >= 0

\* bytes.Index(body[:300], notFoundText) >= 0
IsNotFound(body) ==
  body.nfAt >= 0 /\ body.nfAt + NotFoundLen <= PrefixWindow

NoErr == [field |-> 0, why |-> "nil"]

\* the value a failed decode leaves in the field: strconv stores the clamped
\* number with its range error, time.Parse stores the zero time
FailedDecode(k) == IF k = 6 THEN "zero" ELSE "clamped"

RECURSIVE ParseFrom(_, _, _)
ParseFrom(data, t, k) ==
  IF k > NumFields THEN [err |-> NoErr, t |-> t]
  ELSE IF k \notin data.found
    THEN [err |-> [field |-> k, why |-> "not found"], t |-> t]
  ELSE IF k \in Decoded /\ k \notin data.good
    THEN [err |-> [field |-> k, why |-> "malformed"],
          t |-> [t EXCEPT !.f[k] = FailedDecode(k)]]
  ELSE ParseFrom(data, [t EXCEPT !.f[k] = "val"], k + 1)

\* the decoding errors are dropped
ParseTorrent_IgnoreDecode(data, t) ==
  ParseFrom([data EXCEPT !.good = Fields], t, 1)

\* ParseTorrent(data, t): the error returned and the record t as it is left
ParseTorrent(data, t) == ParseFrom(data, t, 1)

\* ------------------------------------------------------------------ state
VARIABLES
  runnersNum, maxTries, startOffset, latest, DEBUG,
  proc, mainPc, nextId, ciClosed, dbChanClosed, wg, writerLock,
  rpc, ri, tries, rt,
  wpc, wt, rows, dbCloses, sigPc,
  dispatched, fetches, fails, failedLog, errLog, parseCalls, emitted, execs,
  doc, nfSeen, events, unlocks, sqlLog, sleeps, midInsertClose, failedAt,
  served, probed, openBodies

cfg == <<runnersNum, maxTries, startOffset, latest, DEBUG>>
\* what does not change during a run: the arguments, the page served and
\* the value getLatest() returned
env == <<cfg, served, probed>>
mainVars == <<mainPc, nextId>>
runnerVars == <<rpc, ri, tries, rt>>
writerVars == <<wpc, wt>>
fetchObs == <<fetches, fails, failedLog, errLog, parseCalls, doc, nfSeen>>
\* what the writer logged, the sleeps of the runners, whether the handler
\* closed the store during an insert, and at which of its three sleeps a
\* runner is (after client.Get, after ioutil.ReadAll, after the doctype
\* check), and how many response bodies a runner has obtained and not closed
sideObs == <<sqlLog, sleeps, midInsertClose, failedAt, openBodies>>

vars ==
  <<runnersNum, maxTries, startOffset, latest, DEBUG,
    proc, mainPc, nextId, ciClosed, dbChanClosed, wg, writerLock,
    rpc, ri, tries, rt,
    wpc, wt, rows, dbCloses, sigPc,
    dispatched, fetches, fails, failedLog, errLog, parseCalls, emitted, execs,
    doc, nfSeen, events, unlocks, sqlLog, sleeps, midInsertClose,
    failedAt, served, probed, openBodies>>

RunnerIds == 1..MaxRunners
\* identifiers the observation counters range over (wider than any range
\* the dispatcher can be given)
IdSpace == 0..(MaxStart + MaxLatest + 1)

Inc(f, id) == [f EXCEPT ![id] = @ + 1]

\* for i := startOffset; ...
FirstId_Zero == startOffset
\* for i := 1 + startOffset; ...
FirstId == 1 + startOffset

\* ...; i < latest+startOffset; i++
LastId_Short == latest + startOffset - 1
\* ...; i <= latest+startOffset; i++
LastId == latest + startOffset

\* if tries >= maxTries
TriesExceeded_Early(n) == n >= maxTries

\* if tries > maxTries+1
TriesExceeded_Late(n) == n > maxTries + 1
\* if tries > maxTries
TriesExceeded(n) == n > maxTries

\* for i := 0; i <= runnersNum; i++ { ...; go runner(...) }
Started_OneMore(w) == w <= runnersNum + 1

\* a runner is started even when runnersNum is 0
Started_AtLeastOne(w) == w <= runnersNum \/ w = 1

\* for i := 0; i < runnersNum; i++ { wg.Add(1); go runner(...) }: the
\* runners that are started
Started(w) == w <= runnersNum

\* the tries counter is declared outside the loop over ci and never reset
TriesAtReceive_Kept(old) == old

\* tries := 0, for each identifier received
TriesAtReceive(old) == 0

\* the loop ends one identifier early
LoopEnds_Early == nextId >= LastId

\* the condition is tested after the body: the first identifier is sent
\* whatever latest is
LoopEnds_AfterFirst == nextId > LastId /\ nextId > FirstId

\* the dispatch loop ends: i <= latest+startOffset is false
LoopEnds == nextId > LastId

\* log.Printf where log.Fatal is meant
FatalOnError_Never == FALSE

\* if DEBUG { log.Fatal... } else { log.Printf... }
FatalOnError == DEBUG

\* latest = 50000 under DEBUG.  The ranges of the model are scaled down, and
\* the value main() puts in place of the probed one is the largest upper
\* bound a run is given here.
DebugLatest == MaxLatest

\* latest := getLatest(); if DEBUG { ...; latest = 50000; ... }: the upper
\* bound the dispatch loop uses when getLatest() returned p
LatestUsed(p) == IF DEBUG THEN DebugLatest ELSE p

\* State when main() has started the handler, the writer and the runners
\* and is about to enter the dispatch loop.  runnersNum, maxTries and
\* startOffset are the arguments, latest is what getLatest() returned (or the
\* value main() puts in its place under DEBUG).
InitRun ==
  /\ runnersNum \in 0..MaxRunners
  /\ maxTries \in 0..MaxTriesArg
  /\ startOffset \in {0, MaxStart}
  /\ latest \in 0..MaxLatest
  /\ DEBUG \in BOOLEAN
  /\ runnersNum + maxTries + latest <= MaxLoad
  /\ proc = "running"
  /\ mainPc = "dispatch"
  /\ nextId = FirstId
  /\ ciClosed = FALSE
  /\ dbChanClosed = FALSE
  /\ wg = runnersNum
  /\ writerLock = TRUE
  /\ rpc = [w \in RunnerIds |-> IF Started(w) THEN "recv" ELSE "none"]
  /\ ri = [w \in RunnerIds |-> 0]
  /\ tries = [w \in RunnerIds |-> 0]
  /\ rt = [w \in RunnerIds |-> NewTorrent]
  /\ wpc = "recv"
  /\ wt = NewTorrent
  /\ rows = <<>>
  /\ dbCloses = 0
  /\ sigPc = "wait"
  /\ dispatched = [id \in IdSpace |-> 0]
  /\ fetches = [id \in IdSpace |-> 0]
  /\ fails = [id \in IdSpace |-> 0]
  /\ failedLog = [id \in IdSpace |-> 0]
  /\ errLog = [id \in IdSpace |-> 0]
  /\ parseCalls = [id \in IdSpace |-> 0]
  /\ emitted = [id \in IdSpace |-> 0]
  /\ execs = [id \in IdSpace |-> 0]
  /\ doc = [id \in IdSpace |-> "none"]
  /\ nfSeen = [id \in IdSpace |-> FALSE]
  /\ events = <<>>
  /\ unlocks = 0
  /\ sqlLog = [id \in IdSpace |-> 0]
  /\ sleeps = [id \in IdSpace |-> <<>>]
  /\ midInsertClose = FALSE
  /\ failedAt = [w \in RunnerIds |-> "none"]
  /\ openBodies = [w \in RunnerIds |-> 0]

\* a run of the crawler, followed from the dispatch loop on: latest is the
\* upper bound the loop uses, whatever getLatest() returned (probed is kept
\* equal to it); what the site serves is drawn at each fetch
Init == InitRun /\ served = GoodDoc /\ probed = latest


\* ------------------------------------------------------------------- main
\* The runners all run the same code and any of those waiting in
\* "for i := range ci" may receive the value sent: of the states that differ
\* only by which of the waiting runners received it, the one where the
\* lowest-numbered runner did stands for all.
Receiver_WhileSending(w) ==
  /\ rpc[w] \in {"recv", "send"}
  /\ \A v \in 1..(w - 1) : rpc[v] \notin {"recv", "send"}

Receiver(w) ==
  /\ rpc[w] = "recv"
  /\ \A v \in 1..(w - 1) : rpc[v] # "recv"

\* ci <- i, received by runner w (for i := range ci); the channel is
\* unbuffered, so the send and the receive are one step
Dispatch(w) ==
  /\ proc = "running"
  /\ mainPc = "dispatch"
  /\ ~LoopEnds
  /\ Receiver(w)
  /\ ri' = [ri EXCEPT ![w] = nextId]
  /\ tries' = [tries EXCEPT ![w] = TriesAtReceive(@)]
  /\ rpc' = [rpc EXCEPT ![w] = "start"]
  /\ nextId' = nextId + 1
  /\ dispatched' = Inc(dispatched, nextId)
  /\ events' = IF nextId = LastId THEN Append(events, "lastDispatch") ELSE events
  /\ UNCHANGED <<sideObs, env, proc, mainPc, ciClosed, dbChanClosed, wg,
                 writerLock, rt,
                 writerVars, rows, dbCloses, sigPc, fetchObs, emitted, execs,
                 unlocks>>

\* close(ci)
MainCloseCi ==
  /\ proc = "running"
  /\ mainPc = "dispatch"
  /\ LoopEnds
  /\ ciClosed' = TRUE
  /\ mainPc' = "wait"
  /\ events' = Append(events, "closeCi")
  /\ UNCHANGED <<sideObs, env, proc, nextId, dbChanClosed, wg, writerLock,
                 runnerVars,
                 writerVars, rows, dbCloses, sigPc, dispatched, fetchObs,
                 emitted, execs, unlocks>>

\* wg.Wait() does not wait
WaitReturns_Early == TRUE

\* wg.Wait() returns when one runner is still at work
WaitReturns_OneLeft == wg <= 1

\* wg.Wait() returns
WaitReturns == wg = 0

MainWait ==
  /\ proc = "running"
  /\ mainPc = "wait"
  /\ WaitReturns
  /\ mainPc' = "closeDbChan"
  /\ UNCHANGED <<sideObs, env, proc, nextId, ciClosed, dbChanClosed, wg,
                 writerLock,
                 runnerVars, writerVars, rows, dbCloses, sigPc, dispatched,
                 fetchObs, emitted, execs, events, unlocks>>

\* close(dbChan)
MainCloseDbChan ==
  /\ proc = "running"
  /\ mainPc = "closeDbChan"
  /\ dbChanClosed' = TRUE
  /\ mainPc' = "lock"
  /\ events' = Append(events, "closeDbChan")
  /\ UNCHANGED <<sideObs, env, proc, nextId, ciClosed, wg, writerLock,
                 runnerVars,
                 writerVars, rows, dbCloses, sigPc, dispatched, fetchObs,
                 emitted, execs, unlocks>>

\* writerLock.Lock() on a mutex that was never locked
LockReturns_Unlocked == TRUE

\* writerLock.Lock() returns
LockReturns == ~writerLock

\* writerLock.Lock(); log.Print("Done.")
MainLock ==
  /\ proc = "running"
  /\ mainPc = "lock"
  /\ LockReturns
  /\ writerLock' = TRUE
  /\ mainPc' = "done"
  /\ UNCHANGED <<sideObs, env, proc, nextId, ciClosed, dbChanClosed, wg,
                 runnerVars,
                 writerVars, rows, dbCloses, sigPc, dispatched, fetchObs,
                 emitted, execs, events, unlocks>>

\* the deferred close runs only if the handler has not closed the store
MainReturn_Synchronized ==
  /\ proc = "running"
  /\ mainPc = "done"
  /\ dbCloses = 0
  /\ dbCloses' = dbCloses + 1
  /\ events' = Append(events, "storeClosed")
  /\ proc' = "returned"
  /\ UNCHANGED <<sideObs, env, mainVars, ciClosed, dbChanClosed, wg, writerLock,
                 runnerVars, writerVars, rows, sigPc, dispatched, fetchObs,
                 emitted, execs, unlocks>>

\* main returns: the deferred db.Close() runs and the process ends
MainReturn ==
  /\ proc = "running"
  /\ mainPc = "done"
  /\ dbCloses' = dbCloses + 1
  /\ events' = Append(events, "storeClosed")
  /\ proc' = "returned"
  /\ UNCHANGED <<sideObs, env, mainVars, ciClosed, dbChanClosed, wg, writerLock,
                 runnerVars, writerVars, rows, sigPc, dispatched, fetchObs,
                 emitted, execs, unlocks>>

\* ----------------------------------------------------- what the run shows
\* Facts about a response, read off the response itself (not off what the
\* runner decides): the properties below relate them to what the runner does.
Retryable(r) == r.kind # "body" \/ ~r.body.doctype
MarkerInWindow(r) ==
  /\ ~Retryable(r)
  /\ r.body.nfAt >= 0
  /\ r.body.nfAt + 86 <= 300
AllFieldsExtract(r) ==
  /\ r.body.found = 1..10
  /\ {3, 4, 5, 6, 8} \subseteq r.body.good

\* the check of a fetch that a retryable response fails: the runner goes to
\* the time.Sleep of that branch
FailedCheck(r) ==
  IF r.kind = "connerr" THEN "get"
  ELSE IF r.kind = "readerr" THEN "read" ELSE "doctype"

ObserveNf(r, id) ==
  [nfSeen EXCEPT ![id] = @ \/ MarkerInWindow(r)]
ObserveDoc(r, id) ==
  IF Retryable(r) \/ MarkerInWindow(r) THEN doc
  ELSE [doc EXCEPT ![id] = IF AllFieldsExtract(r) THEN "ok" ELSE "bad"]

\* ----------------------------------------------------------------- runner
\* for i := range ci, once ci is closed and drained:
\* log.Printf("Goroutine done."); wg.Done()
RunnerExit(w) ==
  /\ proc = "running"
  /\ rpc[w] = "recv"
  /\ ciClosed
  /\ rpc' = [rpc EXCEPT ![w] = "done"]
  /\ wg' = wg - 1
  /\ events' = IF wg = 1 THEN Append(events, "workersDone") ELSE events
  /\ UNCHANGED <<sideObs, env, proc, mainVars, ciClosed, dbChanClosed,
                 writerLock, ri,
                 tries, rt, writerVars, rows, dbCloses, sigPc, dispatched,
                 fetchObs, emitted, execs, unlocks>>

\* start: tries += 1; if tries > maxTries { Fatalf / Printf("Failed torrent");
\* continue }
RunnerStart(w) ==
  /\ proc = "running"
  /\ rpc[w] = "start"
  /\ tries' = [tries EXCEPT ![w] = @ + 1]
  /\ IF TriesExceeded(tries[w] + 1)
       THEN /\ failedLog' = Inc(failedLog, ri[w])
            /\ IF FatalOnError
                 THEN proc' = "fatal" /\ rpc' = rpc
                 ELSE proc' = proc /\ rpc' = [rpc EXCEPT ![w] = "recv"]
       ELSE /\ rpc' = [rpc EXCEPT ![w] = "fetch"]
            /\ UNCHANGED <<failedLog, proc>>
  /\ UNCHANGED <<sideObs, env, mainVars, ciClosed, dbChanClosed, wg, writerLock,
                 ri, rt,
                 writerVars, rows, dbCloses, sigPc, dispatched, fetches, fails,
                 errLog, parseCalls, doc, nfSeen, emitted, execs, events,
                 unlocks>>

\* t := new(Torrent); err = ParseTorrent(body, t)
Extract_NoId(body, i) == ParseTorrent(body, NewTorrent)

\* t := new(Torrent); t.Id = i; err = ParseTorrent(body, t)
Extract(body, i) == ParseTorrent(body, [NewTorrent EXCEPT !.Id = i])

\* where the runner goes after ParseTorrent returned an error and the error
\* was logged (non-DEBUG): there is no continue, it falls through to
\* dbChan <- t
AfterParseError == "send"

\* resp, err := client.Get(url): a response, and with it a body to close,
\* is obtained unless err != nil
Opened(r) == IF r.kind = "connerr" THEN 0 ELSE 1

\* resp.Body.Close() comes after the error check of ioutil.ReadAll: the
\* branch taken when the read fails goes to start without reaching it
Closed(r) == IF r.kind = "body" THEN 1 ELSE 0

\* client.Get(url), ioutil.ReadAll(resp.Body), the doctype check, the
\* not-found check, ParseTorrent and the logging of its error, for the
\* response r
RunnerFetch(w, r) ==
  /\ proc = "running"
  /\ rpc[w] = "fetch"
  /\ fetches' = Inc(fetches, ri[w])
  /\ nfSeen' = ObserveNf(r, ri[w])
  /\ doc' = ObserveDoc(r, ri[w])
  /\ openBodies' = [openBodies EXCEPT ![w] = @ + Opened(r) - Closed(r)]
  /\ IF r.kind = "connerr" \/ r.kind = "readerr" \/ ~HasDoctype(r.body)
       THEN /\ fails' = Inc(fails, ri[w])
            /\ failedAt' = [failedAt EXCEPT ![w] = FailedCheck(r)]
            /\ rpc' = [rpc EXCEPT ![w] = "sleep"]
            /\ UNCHANGED <<proc, rt, errLog, parseCalls>>
       ELSE IF ~SliceInRange(r.body)
         THEN \* slice bounds out of range
              /\ proc' = "panic"
              /\ UNCHANGED <<rpc, rt, fails, failedAt, errLog, parseCalls>>
       ELSE IF IsNotFound(r.body)
         THEN /\ rpc' = [rpc EXCEPT ![w] = "recv"]
              /\ UNCHANGED <<proc, rt, fails, failedAt, errLog, parseCalls>>
         ELSE LET res == Extract(r.body, ri[w]) IN
              /\ parseCalls' = Inc(parseCalls, ri[w])
              /\ rt' = [rt EXCEPT ![w] = res.t]
              /\ UNCHANGED <<fails, failedAt>>
              /\ IF res.err = NoErr
                   THEN /\ rpc' = [rpc EXCEPT ![w] = "send"]
                        /\ UNCHANGED <<proc, errLog>>
                   ELSE /\ errLog' = Inc(errLog, ri[w])
                        /\ IF FatalOnError
                             THEN proc' = "fatal" /\ rpc' = rpc
                             ELSE /\ proc' = proc
                                  /\ rpc' = [rpc EXCEPT ![w] = AfterParseError]
  /\ UNCHANGED <<sqlLog, sleeps, midInsertClose, env, mainVars, ciClosed,
                 dbChanClosed, wg, writerLock, ri, tries, writerVars, rows,
                 dbCloses, sigPc, dispatched, failedLog, emitted, execs,
                 events, unlocks>>

\* time.Sleep(time.Second): the same pause after every failure
Backoff_Constant(n) == 1

\* time.Duration(tries) * time.Second, in seconds
Backoff(n) == n

\* time.Sleep(time.Duration(tries) * time.Second); goto start
RunnerSleep(w) ==
  /\ proc = "running"
  /\ rpc[w] = "sleep"
  /\ sleeps' = [sleeps EXCEPT ![ri[w]] = Append(@, Backoff(tries[w]))]
  /\ rpc' = [rpc EXCEPT ![w] = "start"]
  /\ failedAt' = [failedAt EXCEPT ![w] = "none"]
  /\ UNCHANGED <<sqlLog, midInsertClose, openBodies, env, proc, mainVars, ciClosed,
                 dbChanClosed, wg, writerLock, ri, tries, rt, writerVars, rows, dbCloses, sigPc, dispatched,
                 fetchObs, emitted, execs, events, unlocks>>

\* the runner executes the insert itself: no hand-over to the writer
RunnerSend_Insert(w) ==
  /\ proc = "running"
  /\ rpc[w] = "send"
  /\ rows' = Append(rows, rt[w])
  /\ rpc' = [rpc EXCEPT ![w] = "recv"]
  /\ emitted' = Inc(emitted, rt[w].Id)
  /\ execs' = Inc(execs, rt[w].Id)
  /\ UNCHANGED <<sideObs, env, proc, mainVars, ciClosed, dbChanClosed, wg,
                 writerLock, ri, tries, rt, writerVars, dbCloses, sigPc,
                 dispatched, fetchObs, events, unlocks>>

\* dbChan <- t, received by the writer (for t := range dbChan)
RunnerSend(w) ==
  /\ proc = "running"
  /\ rpc[w] = "send"
  /\ IF dbChanClosed
       THEN \* send on a closed channel
            /\ proc' = "panic"
            /\ UNCHANGED <<wt, wpc, rpc, emitted>>
       ELSE /\ wpc = "recv"
            /\ wt' = rt[w]
            /\ wpc' = "insert"
            /\ rpc' = [rpc EXCEPT ![w] = "recv"]
            /\ emitted' = Inc(emitted, rt[w].Id)
            /\ proc' = proc
  /\ UNCHANGED <<sideObs, env, mainVars, ciClosed, dbChanClosed, wg,
                 writerLock, ri, tries, rt, rows, dbCloses, sigPc, dispatched,
                 fetchObs, execs, events, unlocks>>

\* ----------------------------------------------------------------- writer
\* the writer returns at the first insert error
AfterInsertError_Return == "stopped"

\* where the writer goes after an insert error was logged (non-DEBUG): to
\* the next record of the range over dbChan
AfterInsertError == "recv"

\* insertQuery.Exec(t.Id, ...) and the handling of its error; ok is whether
\* the store accepts the row (it cannot once the store is closed)
WriterInsert(ok) ==
  /\ proc = "running"
  /\ wpc = "insert"
  /\ execs' = Inc(execs, wt.Id)
  /\ IF ok /\ dbCloses = 0
       THEN /\ rows' = Append(rows, wt)
            /\ wpc' = "recv"
            /\ UNCHANGED <<proc, sqlLog>>
       ELSE /\ rows' = rows
            /\ sqlLog' = Inc(sqlLog, wt.Id)
            /\ IF FatalOnError
                 THEN proc' = "fatal" /\ wpc' = wpc
                 ELSE proc' = proc /\ wpc' = AfterInsertError
  /\ UNCHANGED <<sleeps, midInsertClose, failedAt, openBodies, env, mainVars, ciClosed,
                 dbChanClosed, wg, writerLock, runnerVars, wt, dbCloses, sigPc, dispatched,
                 fetchObs, emitted, events, unlocks>>

\* the writer never sees the close (for { t := <-dbChan; ... })
RangeEnds_Never == FALSE

\* the writer stops at the close without finishing the record it holds
RangeEnds_Abrupt == dbChanClosed /\ wpc # "done"

\* the range over dbChan ends when dbChan is closed
RangeEnds == wpc = "recv" /\ dbChanClosed

\* lock.Unlock()
WriterDone ==
  /\ proc = "running"
  /\ RangeEnds
  /\ wpc' = "done"
  /\ writerLock' = FALSE
  /\ unlocks' = unlocks + 1
  /\ events' = Append(events, "writerDone")
  /\ UNCHANGED <<sideObs, env, proc, mainVars, ciClosed, dbChanClosed, wg,
                 runnerVars,
                 wt, rows, dbCloses, sigPc, dispatched, fetchObs, emitted,
                 execs>>

\* --------------------------------------------------------- signal handler
\* _ = <-c; db.Close(): an interrupt is delivered and the handler closes
\* the store (no other goroutine can tell the receipt from the close)
Signal ==
  /\ proc = "running"
  /\ sigPc = "wait"
  /\ dbCloses' = dbCloses + 1
  /\ midInsertClose' = (wpc = "insert")
  /\ sigPc' = "exit"
  /\ UNCHANGED <<sqlLog, sleeps, failedAt, openBodies, env, proc, mainVars, ciClosed,
                 dbChanClosed, wg, writerLock, runnerVars, writerVars, rows, dispatched, fetchObs, emitted,
                 execs, events, unlocks>>

\* the handler lets the writer finish before it exits
ExitReady_AfterDrain == wpc = "done"

\* os.Exit(0) waits for nothing
ExitReady == TRUE

\* os.Exit(0) in the handler
HandlerExit ==
  /\ proc = "running"
  /\ sigPc = "exit"
  /\ ExitReady
  /\ proc' = "interrupted"
  /\ UNCHANGED <<sideObs, env, mainVars, ciClosed, dbChanClosed, wg, writerLock,
                 runnerVars, writerVars, rows, dbCloses, sigPc, dispatched,
                 fetchObs, emitted, execs, events, unlocks>>

\* ---------------------------------------------------------- specification
\* the goroutines of the pipeline: main, the runners, the writer
Pipeline ==
  \/ \E w \in RunnerIds : Dispatch(w)
  \/ MainCloseCi
  \/ MainWait
  \/ MainCloseDbChan
  \/ MainLock
  \/ MainReturn
  \/ \E w \in RunnerIds : RunnerExit(w)
  \/ \E w \in RunnerIds : RunnerStart(w)
  \/ \E w \in RunnerIds : \E r \in Responses : RunnerFetch(w, r)
  \/ \E w \in RunnerIds : RunnerSleep(w)
  \/ \E w \in RunnerIds : RunnerSend(w)
  \/ \E ok \in BOOLEAN : WriterInsert(ok)
  \/ WriterDone

\* the signal handler goroutine
Handler == Signal \/ HandlerExit

Next == Pipeline \/ Handler

Spec == Init /\ [][Next]_vars

\* A run in which no interrupt is delivered, under the scheduling the Go
\* runtime gives: while some goroutine can take a step (a fetch or an insert
\* returns, a channel operation has its partner), a step is taken.
UninterruptedFairSpec == Init /\ [][Pipeline]_vars /\ WF_vars(Pipeline)

\* the handler goroutine, once it has the signal, is scheduled: nothing in
\* the program can block it between db.Close() and os.Exit(0)
InterruptFairSpec == Init /\ [][Next]_vars /\ WF_vars(HandlerExit)

\* ------------------------------------------------- one page, one runner
\* The pages ParseTorrent and the checks of the runner are examined on:
\* every set of fields whose pattern matches, with every set of matched
\* fields whose text does not decode
FieldDocs ==
  UNION {{Body(TRUE, -1, found, good) : good \in SUBSET (found \cap Decoded)} :
           found \in SUBSET Fields}

\* offsets of the not-found title around the end of the prefix window
MarkerOffsets ==
  {DoctypeLen, PrefixWindow - NotFoundLen, PrefixWindow - NotFoundLen + 1,
   PrefixWindow - 1, PrefixWindow}

MarkerDocs ==
  {Body(TRUE, at, found, found) : at \in MarkerOffsets, found \in {{}, Fields}}

\* bodies shorter than the window, with and without the not-found title
ShortDocs ==
  {ShortBody(n, -1) :
     n \in {DoctypeLen, DoctypeLen + NotFoundLen, PrefixWindow - 1}}
    \cup {ShortBody(n, DoctypeLen) :
             n \in {DoctypeLen + NotFoundLen, PrefixWindow - 1}}

Documents == FieldDocs \cup MarkerDocs \cup ShortDocs \cup {NoDoctypeDoc}

\* one runner is given the one identifier 1 and a single try, and the site
\* serves the same page at every fetch
DocumentInit ==
  /\ InitRun
  /\ runnersNum = 1
  /\ maxTries = 1
  /\ startOffset = 0
  /\ latest = 1
  /\ probed = latest
  /\ served \in Documents

\* client.Get returns the page served
FetchServed(w) == RunnerFetch(w, [kind |-> "body", body |-> served])

DocumentPipeline ==
  \/ \E w \in RunnerIds : Dispatch(w)
  \/ MainCloseCi
  \/ MainWait
  \/ MainCloseDbChan
  \/ MainLock
  \/ MainReturn
  \/ \E w \in RunnerIds : RunnerExit(w)
  \/ \E w \in RunnerIds : RunnerStart(w)
  \/ \E w \in RunnerIds : FetchServed(w)
  \/ \E w \in RunnerIds : RunnerSleep(w)
  \/ \E w \in RunnerIds : RunnerSend(w)
  \/ \E ok \in BOOLEAN : WriterInsert(ok)
  \/ WriterDone

\* the run on one page, with no interrupt and every goroutine scheduled
DocumentSpec ==
  DocumentInit /\ [][DocumentPipeline]_vars /\ WF_vars(DocumentPipeline)

\* ------------------------------------------- from the probe of the site
\* A run followed from latest := getLatest() on: the value probed is drawn,
\* and latest is what main() makes of it.  One try per identifier.
ProbeInit ==
  /\ InitRun
  /\ maxTries = 1
  /\ served = GoodDoc
  /\ probed \in 0..MaxLatest
  /\ latest = LatestUsed(probed)

ProbeSpec == ProbeInit /\ [][Next]_vars

\* ----------------------------------------------------------------- claims
\* the range of identifiers the run is given
Range == (startOffset + 1)..(startOffset + latest)

\* runner w holds an identifier it has not finished with
Working(w) == rpc[w] \in {"start", "fetch", "sleep", "send"}
Holder(id) == {w \in RunnerIds : Working(w) /\ ri[w] = id}

\* the identifier was dispatched and its runner has moved on
Finished(id) == dispatched[id] >= 1 /\ Holder(id) = {}

\* rows of the store that carry the identifier
RowsOf(id) == {n \in 1..Len(rows) : rows[n].Id = id}

\* no interrupt was delivered and no fatal error ended the process
Orderly == sigPc = "wait" /\ proc # "fatal"

\* C1 (as claimed): without DEBUG, a row is stored for an identifier only if
\* all ten fields of its document extract; a document with a missing or
\* malformed field gives no row and exactly one logged error.
C1_RowIffAllFieldsExtract ==
  ~DEBUG =>
    \A id \in IdSpace :
      /\ RowsOf(id) # {} => doc[id] = "ok"
      /\ doc[id] = "bad" => RowsOf(id) = {} /\ errLog[id] = 1

\* C2: every identifier of [start+1, start+count] is dispatched exactly once
\* and held by exactly one runner, nothing outside the range is dispatched,
\* and when the identifier channel is closed the whole range was dispatched.
C2_DispatchedExactlyOnce ==
  /\ \A id \in IdSpace :
       /\ dispatched[id] <= 1
       /\ dispatched[id] = 1 => id \in Range
       /\ Cardinality(Holder(id)) <= dispatched[id]
  /\ \A w \in RunnerIds : Working(w) => dispatched[ri[w]] = 1
  /\ ciClosed => \A id \in Range : dispatched[id] = 1

C2_Witness ==
  /\ ciClosed
  /\ latest = 2
  /\ startOffset = MaxStart
  /\ runnersNum = 2
  /\ \A id \in Range : dispatched[id] = 1 /\ Cardinality(Holder(id)) = 1

C5_NotFoundSkipped ==
  \A id \in IdSpace :
    nfSeen[id] =>
      /\ parseCalls[id] = 0
      /\ emitted[id] = 0
      /\ execs[id] = 0
      /\ RowsOf(id) = {}
      /\ errLog[id] = 0
      /\ failedLog[id] = 0
      /\ Holder(id) = {}
      /\ fetches[id] = fails[id] + 1

C5_Witness ==
  \E id \in IdSpace :
    /\ nfSeen[id]
    /\ fails[id] = 1
    /\ proc = "returned"

\* C6: the identifiers with a row are in the dispatched range and no
\* identifier has more than one insert executed (so at most one row).
C6_RowsInRangeNoDuplicates ==
  \A id \in IdSpace :
    /\ execs[id] <= 1
    /\ emitted[id] <= 1
    /\ Cardinality(RowsOf(id)) <= 1
    /\ (execs[id] >= 1 \/ RowsOf(id) # {}) => id \in Range /\ dispatched[id] = 1
  
C6_Witness ==
  /\ runnersNum = 2
  /\ Len(rows) = 2
  /\ rows[1].Id # rows[2].Id
  /\ startOffset = MaxStart

\* s is an initial part of t
IsPrefix(s, t) == Len(s) <= Len(t) /\ SubSeq(t, 1, Len(s)) = s

ShutdownOrder ==
  << "lastDispatch", "closeCi", "workersDone", "closeDbChan", "writerDone",
     "storeClosed" >>

\* an empty range has no last identifier, a run without runners no runner
\* that reports
HasOccasion(e) ==
  /\ e = "lastDispatch" => latest >= 1
  /\ e = "workersDone" => runnersNum >= 1
ExpectedShutdown == SelectSeq(ShutdownOrder, HasOccasion)

\* C7: in a run without interrupt and without fatal error the shutdown
\* events happen once each and in the order: last identifier dispatched,
\* identifier channel closed, all runners reported, record channel closed,
\* writer signalled, store closed.  The record channel is not closed while a
\* runner still runs and the store is not closed before the writer signalled.
C7_OrderlyShutdown ==
  Orderly =>
    /\ IsPrefix(events, ExpectedShutdown)
    /\ proc = "returned" => events = ExpectedShutdown
    /\ dbChanClosed => wg = 0 /\ \A w \in 1..runnersNum : rpc[w] = "done"
    /\ dbCloses >= 1 => wpc = "done" /\ unlocks = 1 /\ dbChanClosed

C7_Witness ==
  /\ Orderly
  /\ proc = "returned"
  /\ runnersNum = 2
  /\ latest = 2
  /\ Len(rows) = 2
  /\ events = ShutdownOrder

\* every goroutine of the pipeline has ended and the store is closed
CleanExit ==
  /\ proc = "returned"
  /\ mainPc = "done"
  /\ dbCloses >= 1
  /\ wpc = "done"
  /\ \A w \in 1..runnersNum : rpc[w] = "done"

\* C8 (as claimed): with at least one runner and no interrupt, the run
\* reaches the clean exit.
C8_AlwaysTerminates == runnersNum >= 1 => <>CleanExit

\* C8 (amended): with at least one runner and no interrupt, the run reaches
\* the clean exit ("Done." is logged, the store is closed, no runner and not
\* the writer is left blocked), unless DEBUG is set and a failure (tries
\* exhausted, ParseTorrent error, insert error) ends the process first.
C8_TerminatesUnlessFatal ==
  runnersNum >= 1 => <>(CleanExit \/ (DEBUG /\ proc = "fatal"))

C8_Witness ==
  /\ CleanExit
  /\ ~DEBUG
  /\ runnersNum = 2
  /\ latest = 2
  /\ \E id \in Range : failedLog[id] = 1
  /\ \E id \in Range : RowsOf(id) # {}

\* the record the writer has received and not yet inserted
Pending(id) == IF wpc = "insert" /\ wt.Id = id THEN 1 ELSE 0

\* C9: in a run without interrupt and without fatal error every record sent
\* on the record channel is with the writer, and its insert has been
\* executed when the writer signals completion and when the store is closed.
C9_NoRecordLost ==
  Orderly =>
    \A id \in IdSpace :
      /\ emitted[id] = execs[id] + Pending(id)
      /\ (wpc = "done" \/ unlocks >= 1 \/ dbCloses >= 1) => execs[id] = emitted[id]

C9_Witness ==
  /\ Orderly
  /\ dbCloses = 1
  /\ wpc = "done"
  /\ \E a \in Range, b \in Range :
       a # b /\ emitted[a] = 1 /\ emitted[b] = 1 /\ execs[a] = 1 /\ execs[b] = 1

\* C10: the writer signals completion at most once, only after the record
\* channel was closed and every record it received was inserted, and exactly
\* once before main gets past writerLock.Lock().
C10_WriterSignalsOnce ==
  /\ unlocks <= 1
  /\ unlocks = 1 <=> wpc = "done"
  /\ unlocks = 1 =>
       /\ dbChanClosed
       /\ \A id \in IdSpace : execs[id] = emitted[id]
  /\ (mainPc = "done" \/ proc = "returned") => unlocks = 1
  /\ mainPc = "lock" /\ unlocks = 0 => writerLock

C10_Witness ==
  /\ mainPc = "done"
  /\ unlocks = 1
  /\ Len(rows) >= 1
  /\ sigPc = "wait"

\* a record whose insert failed: logged, not a row
InsertFailed(id) == sqlLog[id] >= 1

\* C11: without DEBUG a failed insert is logged once and never executed
\* again (no retry, no requeue), every record the writer receives gets
\* exactly one insert, and after a failed insert the writer still drains
\* dbChan and signals completion once the channel is closed.
C11_FailedInsertDoesNotStopWriter ==
  /\ [](~DEBUG =>
        \A id \in IdSpace :
          /\ execs[id] <= 1
          /\ emitted[id] = execs[id] + Pending(id)
          /\ sqlLog[id] + Cardinality(RowsOf(id)) = execs[id]
          /\ InsertFailed(id) => RowsOf(id) = {})
  /\ (~DEBUG /\ \E id \in IdSpace : InsertFailed(id))
       ~> (/\ wpc = "done"
           /\ unlocks = 1
           /\ dbChanClosed
           /\ \A id \in IdSpace : execs[id] = emitted[id])

C11_Witness ==
  /\ ~DEBUG
  /\ wpc = "done"
  /\ unlocks = 1
  /\ \E a \in Range, b \in Range :
       /\ a < b
       /\ InsertFailed(a)
       /\ execs[b] = 1
       /\ RowsOf(b) # {}

\* C12: without DEBUG, an identifier whose tries are used up is abandoned
\* alone: its runner is back at the receive on ci (it leaves the loop only
\* when ci is closed), and for every identifier a runner holds the tries
\* counter counts the fetches of that identifier only, so every identifier,
\* also one received after an abandoned one, starts from zero and is
\* abandoned only after maxTries fetches of its own.
C12_AbandonOnlyThatIdentifier ==
  ~DEBUG =>
    /\ \A w \in RunnerIds :
         /\ rpc[w] = "fetch" => tries[w] = fetches[ri[w]] + 1
         /\ rpc[w] \in {"start", "sleep", "send"} => tries[w] = fetches[ri[w]]
         /\ rpc[w] = "done" => ciClosed
    /\ \A id \in IdSpace :
         failedLog[id] >= 1 =>
           /\ failedLog[id] = 1
           /\ Holder(id) = {}
           /\ fetches[id] = maxTries
           /\ fails[id] = maxTries
           /\ emitted[id] = 0

C12_Witness ==
  /\ ~DEBUG
  /\ runnersNum = 1
  /\ maxTries = 2
  /\ \E a \in Range, b \in Range :
       /\ a < b
       /\ failedLog[a] = 1
       /\ fails[b] = 1
       /\ fetches[b] = 2
       /\ RowsOf(b) # {}

\* the failures that DEBUG turns fatal, as observed for an identifier: its
\* tries ran out, its document did not parse, its insert failed
Escalated(id) == failedLog[id] >= 1 \/ doc[id] = "bad" \/ InsertFailed(id)

\* C13: under DEBUG the first exhaustion of the tries, parse error or insert
\* error ends the process: there is never a second one, the process is in
\* its fatal exit and takes no further step (no dispatch, no fetch, no
\* insert), and the failing identifier has no row.
C13_DebugFailureHalts ==
  DEBUG =>
    /\ \A id \in IdSpace :
         Escalated(id) =>
           /\ proc = "fatal"
           /\ RowsOf(id) = {}
           /\ \A other \in IdSpace \ {id} : ~Escalated(other)
           /\ failedLog[id] + sqlLog[id] + (IF doc[id] = "bad" THEN 1 ELSE 0) = 1
    /\ proc = "fatal" =>
         /\ ~ENABLED Next
         /\ \E id \in IdSpace : Escalated(id)

C13_Witness ==
  /\ DEBUG
  /\ proc = "fatal"
  /\ ~LoopEnds \/ \E w \in RunnerIds : rpc[w] = "fetch"
  /\ \E id \in Range : Escalated(id)

\* C14: wherever the pipeline is, the interrupt can be delivered; its
\* handler has then closed the store, its exit is never held up by a runner,
\* the writer or main, and the process terminates.
C14_InterruptTerminates ==
  /\ [](proc = "running" /\ sigPc = "wait" => ENABLED Signal)
  /\ [](sigPc = "exit" => dbCloses >= 1)
  /\ [](proc = "running" /\ sigPc = "exit" => ENABLED HandlerExit)
  /\ (sigPc = "exit") ~> (proc # "running" /\ dbCloses >= 1)

C14_Witness ==
  /\ proc = "interrupted"
  /\ dbCloses = 1
  /\ wpc = "insert"
  /\ mainPc \in {"dispatch", "wait"}
  /\ \E w \in RunnerIds : rpc[w] \in {"fetch", "sleep"}

\* the terminal states an identifier has reached: Failed (its tries ran
\* out), Emitted (its record was sent on dbChan), Skipped (not found)
TerminalCount(id) ==
  failedLog[id] + emitted[id] + (IF nfSeen[id] THEN 1 ELSE 0)

\* C15: without DEBUG every identifier a runner received ends in exactly
\* one of Skipped, Failed and Emitted, is in none of them while a runner
\* still holds it, the runner is back at the receive only when it is in
\* one, and Emitted is entered only from Parsed, that is for a document all
\* of whose fields were extracted.
C15_PerIdentifierStateMachine ==
  ~DEBUG =>
    \A id \in IdSpace :
      /\ TerminalCount(id) <= 1
      /\ Holder(id) # {} => TerminalCount(id) = 0
      /\ Finished(id) => TerminalCount(id) = 1
      /\ emitted[id] >= 1 => doc[id] = "ok"

\* the identifiers that a runner has accepted from ci
Accepted == {id \in IdSpace : dispatched[id] >= 1}

\* C16: the identifiers accepted so far are always startOffset+1 up to
\* some identifier without a gap, each accepted once; every acceptance is
\* of the identifier one above the last accepted (startOffset+1 for the
\* first) and happens while ci is open; ci is closed only when
\* startOffset+latest has been accepted, and stays closed.
C16_DispatchInOrderThenClose ==
  /\ [](/\ Accepted = (startOffset + 1)..(startOffset + Cardinality(Accepted))
        /\ \A id \in Accepted : dispatched[id] = 1
        /\ ciClosed => Cardinality(Accepted) = latest)
  /\ [][/\ dispatched' # dispatched =>
             /\ ~ciClosed
             /\ dispatched' =
                  Inc(dispatched, startOffset + Cardinality(Accepted) + 1)
        /\ ciClosed => ciClosed' /\ dispatched' = dispatched]_vars

C16_Witness ==
  /\ ciClosed
  /\ runnersNum = 1
  /\ startOffset = MaxStart
  /\ latest = 2
  /\ dispatched[MaxStart + 1] = 1
  /\ dispatched[MaxStart + 2] = 1

\* records the writer has received and not yet passed to Exec
InProgress(id) == emitted[id] - execs[id]

\* C17: at most one record is between its receipt and the end of its Exec,
\* it is the record the writer holds in its insert, and a writer in its
\* insert in a running process holds such a record; the table and the count of
\* Execs change only in a step of the writer that ends an insert, by one
\* Exec and at most one row, and such a step moves no runner and not main.
C17_OnlyWriterInsertsOneAtATime ==
  /\ [](/\ \A id \in IdSpace : InProgress(id) \in {0, 1}
        /\ Cardinality({id \in IdSpace : InProgress(id) = 1}) <= 1
        /\ \A id \in IdSpace :
             InProgress(id) = 1 => wpc = "insert" /\ wt.Id = id
        /\ wpc = "insert" /\ proc = "running" => InProgress(wt.Id) = 1)
  /\ [][rows' # rows \/ execs' # execs =>
          /\ wpc = "insert"
          /\ wpc' # "insert" \/ proc' = "fatal"
          /\ execs' = Inc(execs, wt.Id)
          /\ rows' = rows \/ rows' = Append(rows, wt)
          /\ UNCHANGED <<rpc, ri, tries, rt, mainPc, nextId>>]_vars

C17_Witness ==
  /\ wpc = "insert"
  /\ proc = "running"
  /\ \E w \in RunnerIds : rpc[w] = "send" /\ rt[w].Id # wt.Id

\* a row of a larger identifier stands before a row of a smaller one
OutOfOrder ==
  \E m \in 1..Len(rows), n \in 1..Len(rows) : m < n /\ rows[m].Id > rows[n].Id

\* C18: rows can be inserted out of identifier order (the state of
\* C18_Witness is reachable), and only with two or more runners: a single
\* runner delivers its records in the order of dispatch.
C18_OutOfOrderNeedsTwoRunners == OutOfOrder => runnersNum >= 2

C18_Witness ==
  /\ runnersNum = 2
  /\ Len(rows) = 2
  /\ rows[1].Id = startOffset + 2
  /\ rows[2].Id = startOffset + 1
  /\ dispatched[startOffset + 1] = 1
  /\ dispatched[startOffset + 2] = 1

\* C19: neither close of the store waits for the other or for the writer:
\* the deferred close of main can run whether or not the handler has closed
\* the store, the handler's close can run while the writer is in an insert,
\* and so the store can be closed twice in one run (and is never closed
\* more often: each of the two runs once).
C19_ClosesNotSynchronized ==
  /\ dbCloses <= 2
  /\ midInsertClose => dbCloses >= 1 /\ sigPc = "exit"
  /\ proc = "running" /\ mainPc = "done" /\ sigPc = "exit" => ENABLED MainReturn
  /\ proc = "running" /\ wpc = "insert" /\ sigPc = "wait" => ENABLED Signal

C19_Witness ==
  /\ dbCloses = 2
  /\ midInsertClose
  /\ proc = "returned"

\* C20: a runner sleeps only between a failed fetch and the next fetch of
\* the same identifier: an identifier never has more sleeps than failed
\* fetches, and an abandoned identifier has one sleep fewer than failed
\* fetches, none after the failure that used up its tries.
C20_NoSleepBeforeAbandon ==
  \A id \in IdSpace :
    /\ Len(sleeps[id]) <= fails[id]
    /\ failedLog[id] >= 1 /\ fails[id] >= 1 => Len(sleeps[id]) = fails[id] - 1

\* the three places where a runner sleeps
SleepSites == {"get", "read", "doctype"}

\* C21: at each of the three sleeps of a runner (after a failed client.Get,
\* a failed ReadAll, a body without the doctype prefix) the sleep lasts as
\* many seconds as fetches of that identifier have failed so far, so the
\* sleeps of every identifier are 1, 2, 3, ... in this order, whatever the
\* identifiers before it went through.
C21_LinearBackoff ==
  /\ [](/\ \A id \in IdSpace :
             /\ \A k \in 1..Len(sleeps[id]) : sleeps[id][k] = k
             /\ Len(sleeps[id]) \in {fails[id] - 1, fails[id]}
        /\ \A w \in RunnerIds :
             rpc[w] = "sleep" <=> failedAt[w] \in SleepSites)
  /\ [][\A id \in IdSpace :
          sleeps'[id] # sleeps[id] =>
            /\ \E w \in RunnerIds :
                 rpc[w] = "sleep" /\ ri[w] = id /\ failedAt[w] \in SleepSites
            /\ sleeps'[id] = Append(sleeps[id], fails[id])]_vars

C21_Witness ==
  /\ runnersNum = 1
  /\ rpc[1] = "sleep"
  /\ failedAt[1] = "doctype"
  /\ \E a \in Range :
       /\ a < ri[1]
       /\ sleeps[a] = <<1, 2>>
       /\ sleeps[ri[1]] = <<1>>
       /\ fails[ri[1]] = 2

\* identifiers a runner accepted that are in none of the terminal states
InFlight == {id \in IdSpace : dispatched[id] >= 1 /\ TerminalCount(id) = 0}

\* C22: the identifiers in flight never outnumber the runners: each is
\* held by one runner that is working on it and on nothing else; an
\* identifier is accepted only after the one before it was, and a runner
\* waiting in its send on dbChan accepts no identifier.
C22_Backpressure ==
  /\ Cardinality(InFlight) <= runnersNum
  /\ Cardinality(InFlight) <= Cardinality({w \in RunnerIds : Working(w)})
  /\ \A id \in InFlight : Cardinality(Holder(id)) = 1
  /\ \A id \in IdSpace :
       dispatched[id] >= 1 /\ id > startOffset + 1 => dispatched[id - 1] >= 1
  /\ \A w \in RunnerIds :
       rpc[w] = "send" =>
         /\ ~ENABLED Dispatch(w)
         /\ ri[w] \in InFlight
         /\ rt[w].Id = ri[w]

C22_Witness ==
  /\ runnersNum = 1
  /\ proc = "running"
  /\ mainPc = "dispatch"
  /\ ~LoopEnds
  /\ rpc[1] = "send"
  /\ InFlight = {ri[1]}
  /\ ~ENABLED Dispatch(1)

\* the fields of a page that cannot be extracted: no match, or a match
\* whose text does not decode
Failing(data) ==
  {k \in Fields : k \notin data.found \/ (k \in Decoded /\ k \notin data.good)}

\* the error the page calls for: none, or the first failing field in the
\* order of FieldNames and what is wrong with it
ExpectedErr(data) ==
  IF Failing(data) = {} THEN NoErr
  ELSE LET first == CHOOSE k \in Failing(data) : \A j \in Failing(data) : k <= j
       IN [field |-> first,
           why |-> IF first \in data.found THEN "malformed" ELSE "not found"]

\* the record a runner passes to ParseTorrent for identifier id
Fresh(id) == [NewTorrent EXCEPT !.Id = id]

\* C23: for every set of fields that do not match and of fields that do
\* not decode, ParseTorrent returns the error of the first failing field in
\* the order title, category, size, seeders, leechers, uploaded, uploader,
\* files_num, description, magnet (an earlier field that is fine never
\* hides it, a later failing field is never reported), and nil exactly when
\* all ten match and decode; the runner logs an error exactly then.
C23_FirstFailingFieldReported ==
  LET res == ParseTorrent(served, Fresh(1)) IN
  /\ res.err = ExpectedErr(served)
  /\ res.err = NoErr <=>
       served.found = Fields /\ Decoded \subseteq served.good
  /\ res.err # NoErr =>
       /\ res.err.field \in Failing(served)
       /\ \A k \in 1..(res.err.field - 1) : res.t.f[k] = "val"
       /\ FieldNames[res.err.field] \in
            {"title", "category", "size", "seeders", "leechers", "uploaded",
             "uploader", "files_num", "description", "magnet"}
  /\ parseCalls[1] >= 1 =>
       /\ errLog[1] = (IF res.err = NoErr THEN 0 ELSE 1)
       /\ rt[1] = res.t

C23_Witness ==
  /\ served = Body(TRUE, -1, Fields \ {9}, {3, 4, 5, 8})
  /\ parseCalls[1] = 1
  /\ errLog[1] = 1
  /\ ParseTorrent(served, Fresh(1)).err = [field |-> 6, why |-> "malformed"]

\* C24: when ParseTorrent returned an error, the record the runner passed
\* to it is as it was before the call: the identifier set, every field
\* still at its zero value.
C24_NoPartialRecord ==
  parseCalls[1] >= 1 /\ errLog[1] >= 1 => rt[1] = Fresh(1)

\* record t carries identifier id and the fields of the page that was
\* fetched for id: all ten if that page was complete, not all if it was not
CarriesPageOf(t, id) ==
  /\ t.Id = id
  /\ doc[id] \in {"ok", "bad"}
  /\ doc[id] = "ok" <=> \A k \in Fields : t.f[k] = "val"

\* C25: ParseTorrent returns the identifier it was given and its result
\* does not depend on it (compared, for the identifier main sends next, with
\* the call on a record without identifier); the record a runner is sending, the record the
\* writer is inserting and every row carry the identifier of the page
\* their fields were extracted from, and that identifier was dispatched.
C25_RecordCarriesItsIdentifier ==
  /\ \A b \in {GoodDoc, NoSeedersDoc} :
       LET res == ParseTorrent(b, Fresh(nextId))
           bare == ParseTorrent(b, NewTorrent)
       IN res.t = [bare.t EXCEPT !.Id = nextId] /\ res.err = bare.err
  /\ \A w \in RunnerIds : rpc[w] = "send" => CarriesPageOf(rt[w], ri[w])
  /\ wpc = "insert" => wt.Id \in Accepted /\ CarriesPageOf(wt, wt.Id)
  /\ \A n \in 1..Len(rows) :
       rows[n].Id \in Accepted /\ CarriesPageOf(rows[n], rows[n].Id)

C25_Witness ==
  /\ runnersNum = 2
  /\ Len(rows) = 2
  /\ rows[1].Id = startOffset + 2
  /\ rows[2].Id = startOffset + 1
  /\ doc[startOffset + 1] = "ok"
  /\ doc[startOffset + 2] = "bad"
  /\ rows[1].f # rows[2].f

\* the page served starts with the doctype and holds the not-found title,
\* but not all of the title within the first 300 bytes
LateMarker ==
  /\ served.doctype
  /\ served.nfAt >= 0
  /\ served.nfAt + NotFoundLen > PrefixWindow

\* the runner went from the fetch of identifier id back to the receive
\* without a retry, a call of ParseTorrent or a record
SkippedByRunner(id) ==
  /\ fetches[id] >= 1
  /\ Holder(id) = {}
  /\ fails[id] = 0
  /\ parseCalls[id] = 0
  /\ emitted[id] = 0

\* C26: a page with the doctype whose not-found title starts so late that
\* it ends after byte 300 is, once fetched, never skipped: it is passed to
\* ParseTorrent, at the first fetch and without a retry.
C26_LateMarkerNotSkipped ==
  LateMarker /\ fetches[1] >= 1 =>
    /\ ~SkippedByRunner(1)
    /\ fetches[1] = 1
    /\ parseCalls[1] = 1
    /\ fails[1] = 0
    /\ errLog[1] = (IF served.found = Fields THEN 0 ELSE 1)

C26_Witness ==
  /\ served = Body(TRUE, PrefixWindow - NotFoundLen + 1, Fields, Fields)
  /\ parseCalls[1] = 1
  /\ Len(rows) = 1
  /\ rows[1].Id = 1

Closes(e) == Cardinality({n \in 1..Len(events) : events[n] = e})

\* C28: no send on a closed channel and no second close ever happens (either
\* would be a panic): ci is closed once, by main and when the whole range
\* was accepted; dbChan is closed once, by main, after ci and after every
\* started runner has called wg.Done(); a runner that has called wg.Done()
\* takes no further step, and every send on dbChan is by a runner that has
\* not and happens while dbChan is open.
C28_NoUseAfterClose ==
  /\ [](/\ proc # "panic"
        /\ Closes("closeCi") = (IF ciClosed THEN 1 ELSE 0)
        /\ Closes("closeDbChan") = (IF dbChanClosed THEN 1 ELSE 0)
        /\ ciClosed => Accepted = Range
        /\ dbChanClosed =>
             /\ ciClosed
             /\ wg = 0
             /\ \A w \in RunnerIds : Started(w) => rpc[w] = "done"
        /\ \A w \in RunnerIds : rpc[w] = "send" => ~dbChanClosed)
  /\ [][/\ dispatched' # dispatched => ~ciClosed /\ ~ciClosed'
        /\ emitted' # emitted =>
             /\ ~dbChanClosed /\ ~dbChanClosed'
             /\ \E w \in RunnerIds : rpc[w] = "send" /\ rpc'[w] = "recv"
        /\ ciClosed' # ciClosed \/ dbChanClosed' # dbChanClosed =>
             mainPc' # mainPc /\ rpc' = rpc /\ wpc' = wpc
        /\ \A w \in RunnerIds : rpc[w] = "done" => rpc'[w] = "done"]_vars

C28_Witness ==
  /\ runnersNum = 2
  /\ Orderly
  /\ proc = "returned"
  /\ Closes("closeCi") = 1
  /\ Closes("closeDbChan") = 1
  /\ Len(rows) = 2

\* C29: with no runner and at least one identifier to send, main never
\* gets past its first send on ci: nothing is accepted, neither channel is
\* closed, the writer stays in its receive and never unlocks, "Done." is
\* never logged and no step of the pipeline is possible; only the
\* interrupt ends the process.
C29_NoRunnerBlocksForever ==
  runnersNum = 0 /\ latest >= 1 =>
    /\ mainPc = "dispatch"
    /\ nextId = FirstId
    /\ Accepted = {}
    /\ ~ciClosed
    /\ ~dbChanClosed
    /\ wpc = "recv"
    /\ unlocks = 0
    /\ events = <<>>
    /\ proc \in {"running", "interrupted"}
    /\ ~ENABLED Pipeline
    /\ proc = "running" => ENABLED Handler

C29_Witness ==
  /\ runnersNum = 0
  /\ latest = 2
  /\ proc = "interrupted"
  /\ mainPc = "dispatch"
  /\ dbCloses = 1

\* C30: when latest is 0 nothing is ever accepted, fetched, sent or
\* inserted, and without an interrupt the run reaches its clean exit:
\* every runner has called wg.Done(), the writer has unlocked with no row
\* written, "Done." was logged and the store is closed once.
C30_EmptyRangeShutsDown ==
  /\ [](latest = 0 =>
          /\ Accepted = {}
          /\ \A id \in IdSpace :
               fetches[id] = 0 /\ emitted[id] = 0 /\ execs[id] = 0
          /\ rows = <<>>
          /\ proc \in {"running", "returned"})
  /\ (latest = 0)
       ~> (/\ CleanExit
           /\ wg = 0
           /\ ciClosed /\ dbChanClosed
           /\ unlocks = 1
           /\ dbCloses = 1
           /\ rows = <<>>)

C30_Witness ==
  /\ latest = 0
  /\ runnersNum = 2
  /\ CleanExit
  /\ unlocks = 1
  /\ rows = <<>>

\* the identifiers main() has sent on ci so far, in the order sent
DispatchedSeq == [k \in 1..(nextId - FirstId) |-> FirstId + k - 1]

\* what a run with DEBUG unset dispatches for the start offset and the
\* probed upper bound of this run: 1+startOffset .. probed+startOffset
UnsetDispatch == [k \in 1..probed |-> startOffset + k]

\* C31: with DEBUG set or unset, the identifiers dispatched are those the
\* run with DEBUG unset dispatches for the same start offset and the same
\* probed upper bound: at any time a prefix of that sequence, and the whole
\* of it once the dispatch loop has ended and ci is closed.
C31_FlagKeepsDispatchedSequence ==
  /\ IsPrefix(DispatchedSeq, UnsetDispatch)
  /\ \A id \in IdSpace :
       dispatched[id] = (IF \E k \in 1..Len(DispatchedSeq) :
                               DispatchedSeq[k] = id THEN 1 ELSE 0)
  /\ ciClosed => DispatchedSeq = UnsetDispatch

\* C32: a runner that is about to issue a fetch or to take an identifier
\* from ci holds no response body it has not closed, whatever the earlier
\* fetches returned (transport error, read error, missing doctype, page), and
\* at no time holds more than one.
C32_BodyClosedBeforeNextFetch ==
  \A w \in RunnerIds :
    /\ openBodies[w] <= 1
    /\ rpc[w] \in {"fetch", "recv"} => openBodies[w] = 0

====
